---- MODULE Spec2Model ----
(***************************************************************************)
(* The icosasphere viewer of src/gui.py: the Icosasphere panel (a Reset    *)
(* button and a subdivisions slider) and AppWindow._create_icosasphere,    *)
(* which builds the subdivided icosahedron and installs it in the scene.   *)
(*                                                                         *)
(* Indices are the 0-based indices of the Python code; At(s, i) reads      *)
(* element i of a list.  Coordinates are exact: a number a + b*PHI is the  *)
(* pair <<a, b>>, and a vertex [w, k, n2] is the point w / (2^k*sqrt(n2)). *)
(***************************************************************************)
EXTENDS Integers, Sequences, FiniteSets, TLC

\* Largest subdivision level a call is made with.
MaxLevel == 2
\* Number of negative levels the direct calls of SpecBuild try.
MaxNegative == 1

\* gui.Slider limits of the subdivisions slider.
SliderMin == 0
SliderMax == 6

VARIABLES
    pc,            \* position of the running code
    handler,       \* the handler that runs, or ran last
    slider,        \* self.subdivisions.int_value
    scene,         \* self._scene.scene: the named geometries, in order of adding
    subdivisions,  \* parameter of _create_icosasphere
    pass,          \* number of completed iterations of the loop of line 228
    vertices,      \* local: the vertex list
    faces,         \* local: the face list
    new_faces,     \* local of the loop body
    vertex_map,    \* local of the loop body: the midpoint cache
    index,         \* local of the loop body: index of the next new vertex
    fi,            \* position of the loop of line 245 in faces
    lines          \* local: the set of lines

vars == <<pc, handler, slider, scene, subdivisions, pass, vertices, faces,
          new_faces, vertex_map, index, fi, lines>>

-----------------------------------------------------------------------------
\* Lists

At(s, i) == s[i + 1]

Max(a, b) == IF a >= b THEN a ELSE b

Min(a, b) == IF a <= b THEN a ELSE b

\* len(range(n))
RangeLen(n) == IF n > 0 THEN n ELSE 0

-----------------------------------------------------------------------------
\* Exact arithmetic on numbers a + b*PHI, PHI*PHI = PHI + 1

Zero == <<0, 0>>

PHI == <<0, 1>>

Num(n) == <<n, 0>>

Neg(p) == <<0 - p[1], 0 - p[2]>>

Add(p, q) == <<p[1] + q[1], p[2] + q[2]>>

Mul(p, q) == <<p[1] * q[1] + p[2] * q[2], p[1] * q[2] + p[2] * q[1] + p[2] * q[2]>>

Scale(n, p) == <<n * p[1], n * p[2]>>

ScaleVec(n, w) == <<Scale(n, w[1]), Scale(n, w[2]), Scale(n, w[3])>>

AddVec(u, w) == <<Add(u[1], w[1]), Add(u[2], w[2]), Add(u[3], w[3])>>

\* The square of the length of the vector w
Norm2W(w) == Add(Add(Mul(w[1], w[1]), Mul(w[2], w[2])), Mul(w[3], w[3]))

\* A point given by its coordinates
Point(x, y, z) == [w |-> <<x, y, z>>, k |-> 0, n2 |-> Num(1)]

\* The square of the norm of v is Norm2W(v.w) / (4^k * n2): it is 1 when the two
\* agree.  A vector of length 0 divided by its norm is not a number.
IsUnit(v) == /\ v.n2 # Zero
             /\ Norm2W(v.w) = Scale(4 ^ v.k, v.n2)

\* (p + q) / 2, for two points over the same square root
Midpoint(p, q) ==
    LET K == Max(p.k, q.k)
    IN  [w  |-> AddVec(ScaleVec(2 ^ (K - p.k), p.w), ScaleVec(2 ^ (K - q.k), q.w)),
         k  |-> K + 1,
         n2 |-> p.n2]

\* v / np.linalg.norm(v): w / (2^k*sqrt(n2)) divided by |w| / (2^k*sqrt(n2))
Normalize(v) == [w |-> v.w, k |-> 0, n2 |-> Norm2W(v.w)]

NormalizeSeedOnly(vs) ==
    [i \in DOMAIN vs |-> IF i <= 12 THEN Normalize(vs[i]) ELSE vs[i]]

\* vertices /= np.linalg.norm(vertices, axis=1)[:, np.newaxis]
NormalizeAll(vs) == [i \in DOMAIN vs |-> Normalize(vs[i])]

-----------------------------------------------------------------------------
\* The icosahedron

SeedVertices ==
    << Point(Num(-1), PHI, Zero), Point(Num(1), PHI, Zero),
       Point(Num(-1), Neg(PHI), Zero), Point(Num(1), Neg(PHI), Zero),
       Point(Zero, Num(-1), PHI), Point(Zero, Num(1), PHI),
       Point(Zero, Num(-1), Neg(PHI)), Point(Zero, Num(1), Neg(PHI)),
       Point(PHI, Zero, Num(-1)), Point(PHI, Zero, Num(1)),
       Point(Neg(PHI), Zero, Num(-1)), Point(Neg(PHI), Zero, Num(1)) >>

SeedFaces ==
    << <<0, 11, 5>>, <<0, 5, 1>>, <<0, 1, 7>>, <<0, 7, 10>>, <<0, 10, 11>>,
       <<1, 5, 9>>, <<5, 11, 4>>, <<11, 10, 2>>, <<10, 7, 6>>, <<7, 1, 8>>,
       <<3, 9, 4>>, <<3, 4, 2>>, <<3, 2, 6>>, <<3, 6, 8>>, <<3, 8, 9>>,
       <<4, 9, 5>>, <<2, 4, 11>>, <<6, 2, 10>>, <<8, 6, 7>>, <<9, 8, 1>> >>

-----------------------------------------------------------------------------
\* The scene (rendering.Open3DScene): named geometries

\* remove_geometry(name): no geometry of that name is left
RemoveGeometry(sc, name) == SelectSeq(sc, LAMBDA g : g.name # name)

\* add_geometry(name, geometry, material): a name already in the scene is refused
AddGeometry(sc, name, geometry) ==
    IF \E i \in DOMAIN sc : sc[i].name = name
    THEN sc
    ELSE Append(sc, [name |-> name, geometry |-> geometry])

\* o3d.geometry.LineSet(points, lines)
LineSet(points, ls) == [points |-> points, lines |-> ls]

-----------------------------------------------------------------------------
\* The subdivision pass

KeyUnsorted(v1, v2) == <<v1, v2>>

\* tuple(sorted([v1, v2]))
Key(v1, v2) == IF v1 <= v2 THEN <<v1, v2>> ELSE <<v2, v1>>

get_vertex_late(st, v1, v2) ==
    LET key == Key(v1, v2)
    IN  IF key \in DOMAIN st.vertex_map
        THEN [ret |-> st.vertex_map[key], vertices |-> st.vertices,
              vertex_map |-> st.vertex_map, index |-> st.index]
        ELSE LET new_vertex == Midpoint(At(st.vertices, v1), At(st.vertices, v2))
             IN  [ret        |-> st.index + 1,
                  vertices   |-> Append(st.vertices, new_vertex),
                  vertex_map |-> st.vertex_map @@ (key :> (st.index + 1)),
                  index      |-> st.index + 1]

\* get_vertex(v1, v2) called with the locals st = [vertices, vertex_map, index]:
\* the index it returns (ret) and the locals after the call
get_vertex(st, v1, v2) ==
    LET key == Key(v1, v2)
    IN  IF key \in DOMAIN st.vertex_map
        THEN [ret |-> st.vertex_map[key], vertices |-> st.vertices,
              vertex_map |-> st.vertex_map, index |-> st.index]
        ELSE LET new_vertex == Midpoint(At(st.vertices, v1), At(st.vertices, v2))
             IN  [ret        |-> st.index,
                  vertices   |-> Append(st.vertices, new_vertex),
                  vertex_map |-> st.vertex_map @@ (key :> st.index),
                  index      |-> st.index + 1]

ChildFacesTypo(v1, v2, v3, a, b, c) ==
    << <<v1, a, c>>, <<v2, b, a>>, <<v3, c, b>>, <<a, b, b>> >>

ChildFacesFlipped(v1, v2, v3, a, b, c) ==
    << <<v1, a, c>>, <<v2, b, a>>, <<v3, c, b>>, <<a, c, b>> >>

ChildFacesSwapped(v1, v2, v3, a, b, c) ==
    << <<v1, c, a>>, <<v2, b, a>>, <<v3, c, b>>, <<a, b, c>> >>

\* The list new_faces is extended with
ChildFaces(v1, v2, v3, a, b, c) ==
    << <<v1, a, c>>, <<v2, b, a>>, <<v3, c, b>>, <<a, b, c>> >>

AccumulateFaces(old, new) == old \o new

\* faces = new_faces
ReplaceFaces(old, new) == new

\* The three lines of a face
FaceLines(f) == {<<f[1], f[2]>>, <<f[2], f[3]>>, <<f[3], f[1]>>}

\* lines = set(); for v1, v2, v3 in faces: lines.update(...)
LinesOf(fs) == UNION {FaceLines(fs[i]) : i \in DOMAIN fs}

-----------------------------------------------------------------------------
\* _create_icosasphere

Locals == [vertices |-> vertices, vertex_map |-> vertex_map, index |-> index]

\* Lines 203-224: the old geometry is removed, the icosahedron is made
CreateEnter(level) ==
    /\ subdivisions' = level
    /\ scene' = RemoveGeometry(scene, "Icosasphere")
    /\ vertices' = NormalizeAll(SeedVertices)
    /\ faces' = SeedFaces
    /\ pass' = 0
    /\ pc' = "loop"
    /\ UNCHANGED <<new_faces, vertex_map, index, fi, lines>>

\* Lines 228-231: an iteration of the loop over range(subdivisions) begins
PassBegin ==
    /\ pc = "loop"
    /\ pass < RangeLen(subdivisions)
    /\ new_faces' = <<>>
    /\ vertex_map' = <<>>
    /\ index' = Len(vertices)
    /\ fi' = 0
    /\ pc' = "faces"
    /\ UNCHANGED <<handler, slider, scene, subdivisions, pass, vertices, faces, lines>>

\* Lines 245-254: one face is divided
SubdivideFace ==
    /\ pc = "faces"
    /\ fi < Len(faces)
    /\ LET f  == At(faces, fi)
           ra == get_vertex(Locals, f[1], f[2])
           rb == get_vertex(ra, f[2], f[3])
           rc == get_vertex(rb, f[3], f[1])
       IN  /\ new_faces' = new_faces \o ChildFaces(f[1], f[2], f[3], ra.ret, rb.ret, rc.ret)
           /\ vertices' = rc.vertices
           /\ vertex_map' = rc.vertex_map
           /\ index' = rc.index
    /\ fi' = fi + 1
    /\ UNCHANGED <<pc, handler, slider, scene, subdivisions, pass, faces, lines>>

\* Line 255: the iteration ends
PassEnd ==
    /\ pc = "faces"
    /\ fi = Len(faces)
    /\ faces' = ReplaceFaces(faces, new_faces)
    /\ pass' = pass + 1
    /\ pc' = "loop"
    /\ UNCHANGED <<handler, slider, scene, subdivisions, vertices, new_faces,
                   vertex_map, index, fi, lines>>

\* Lines 257-278: the lines, the last normalization, the geometry enters the scene
Finish ==
    /\ pc = "loop"
    /\ pass >= RangeLen(subdivisions)
    /\ lines' = LinesOf(faces)
    /\ vertices' = NormalizeAll(vertices)
    /\ scene' = AddGeometry(scene, "Icosasphere", LineSet(vertices', lines'))
    /\ pc' = "idle"
    /\ UNCHANGED <<handler, slider, subdivisions, pass, faces, new_faces,
                   vertex_map, index, fi>>

-----------------------------------------------------------------------------
\* The window

\* The values the slider is moved to
SliderValues == SliderMin .. Min(SliderMax, MaxLevel)

ResetValueKept(old) == old

\* self.subdivisions.int_value = 0
ResetValue(old) == 0

\* Line 74: AppWindow.__init__ creates the icosasphere
Construct ==
    /\ pc = "init"
    /\ handler' = "__init__"
    /\ CreateEnter(0)
    /\ UNCHANGED slider

\* Lines 328-331: the slider was moved to value
OnSubdivisionsChange ==
    /\ pc = "idle"
    /\ \E value \in SliderValues :
          /\ slider' = value
          /\ CreateEnter(value)
    /\ handler' = "_on_subdivisions_change"

\* Lines 323-326: Reset was clicked
OnResetIcosasphere ==
    /\ pc = "idle"
    /\ slider' = ResetValue(slider)
    /\ CreateEnter(0)
    /\ handler' = "_on_reset_icosasphere"

\* A call of _create_icosasphere(subdivisions) on a new window
DirectCall ==
    /\ pc = "call"
    /\ handler' = "call"
    /\ CreateEnter(subdivisions)
    /\ UNCHANGED slider

NoLocals ==
    /\ pass = 0
    /\ vertices = <<>>
    /\ faces = <<>>
    /\ new_faces = <<>>
    /\ vertex_map = <<>>
    /\ index = 0
    /\ fi = 0
    /\ lines = {}

\* The window at line 74 of __init__: the slider is made (lines 135-137), the scene is empty
Init ==
    /\ pc = "init"
    /\ handler = "__init__"
    /\ slider = 0
    /\ scene = <<>>
    /\ subdivisions = 0
    /\ NoLocals

Next ==
    \/ Construct
    \/ OnSubdivisionsChange
    \/ OnResetIcosasphere
    \/ PassBegin
    \/ SubdivideFace
    \/ PassEnd
    \/ Finish

Spec == Init /\ [][Next]_vars

\* _create_icosasphere as a function of its parameter
Levels == (0 - MaxNegative) .. MaxLevel

InitBuild ==
    /\ pc = "call"
    /\ handler = "call"
    /\ slider = 0
    /\ scene = <<>>
    /\ subdivisions \in Levels
    /\ NoLocals

NextBuild ==
    \/ DirectCall
    \/ PassBegin
    \/ SubdivideFace
    \/ PassEnd
    \/ Finish

SpecBuild == InitBuild /\ [][NextBuild]_vars

-----------------------------------------------------------------------------
\* Properties

\* 12 + 10*(4^L - 1)
VertexCount(L) == 12 + 10 * (4 ^ L - 1)

\* 20 * 4^L
FaceCount(L) == 20 * 4 ^ L

\* The edges of the faces fs, as unordered pairs
UndirectedEdges(fs) == {{e[1], e[2]} : e \in LinesOf(fs)}

\* The coordinates of the vertices of vs, times 2^K * sqrt(n2): vertices over
\* the same square root are the same point exactly when these are equal
Scaled(vs, K) == {ScaleVec(2 ^ (K - vs[i].k), vs[i].w) : i \in DOMAIN vs}

ValidFace(f, n) ==
    /\ f[1] # f[2] /\ f[2] # f[3] /\ f[1] # f[3]
    /\ \A j \in 1..3 : f[j] \in 0 .. (n - 1)

\* Every midpoint is taken of two points over the same square root, as Midpoint asks
SameRoot ==
    pc \in {"loop", "faces"} =>
        \A i \in DOMAIN vertices : vertices[i].n2 = vertices[1].n2 /\ vertices[i].k <= pass + 1

\* C1: the mesh of level L has 12 + 10*(4^L - 1) vertices: after seeding and after
\* each pass the count is that of the number of passes made, a pass adds one
\* vertex for each undirected edge of the faces it divides, no vertex is removed
\* during a pass and no two vertices are the same point.
C1_VertexCount ==
    /\ pc = "loop" =>
          /\ Len(vertices) = VertexCount(pass)
          /\ Cardinality(Scaled(vertices, pass)) = Len(vertices)
    /\ pc = "faces" =>
          /\ Len(vertices) >= VertexCount(pass)
          /\ fi = Len(faces) =>
                Len(vertices) = VertexCount(pass) + Cardinality(UndirectedEdges(faces))
    /\ (pc = "idle" /\ subdivisions >= 0) =>
          /\ Len(vertices) = VertexCount(subdivisions)
          /\ \A i \in DOMAIN scene :
                Len(scene[i].geometry.points) = VertexCount(subdivisions)

C1_Witness ==
    /\ pc = "idle"
    /\ subdivisions = 2
    /\ Len(vertices) = 162

\* C2: the final face list of level L has 20 * 4^L faces: each pass emits four
\* faces for each face and replaces the face list by them.
C2_FaceCount ==
    /\ pc = "loop" => Len(faces) = FaceCount(pass)
    /\ pc = "faces" => (Len(faces) = FaceCount(pass) /\ Len(new_faces) = 4 * fi)
    /\ (pc = "idle" /\ subdivisions >= 0) => Len(faces) = FaceCount(subdivisions)

C2_Witness ==
    /\ pc = "idle"
    /\ subdivisions = 2
    /\ Len(faces) = 320

\* C3: the line set made of the final faces holds every edge once as an
\* unordered pair: never both (a, b) and (b, a), 30 * 4^L lines at level L.
C3_UnorderedEdgesOnce ==
    (pc = "idle" /\ subdivisions >= 0) =>
        /\ \A e \in lines : <<e[2], e[1]>> \notin lines
        /\ Cardinality(lines) = 30 * 4 ^ subdivisions

\* C4: a call with a negative level fails: when it has ended it has made no
\* vertices, faces or lines and has put no geometry in the scene.
C4_NegativeLevelFails ==
    (pc = "idle" /\ subdivisions < 0) =>
        /\ vertices = <<>>
        /\ faces = <<>>
        /\ lines = {}
        /\ scene = <<>>

\* C5: every vertex of the returned mesh has norm 1: the seed vertices once
\* seeded, and every vertex of the list and of the geometry in the scene when
\* the call has returned.
C5_ReturnedVerticesUnit ==
    /\ (pc = "loop" /\ pass = 0) => \A i \in DOMAIN vertices : IsUnit(vertices[i])
    /\ pc = "idle" =>
          /\ \A i \in DOMAIN vertices : IsUnit(vertices[i])
          /\ \A g \in DOMAIN scene :
                \A i \in DOMAIN scene[g].geometry.points :
                    IsUnit(scene[g].geometry.points[i])

C5_Witness ==
    /\ pc = "idle"
    /\ subdivisions = 2
    /\ Len(vertices) > 42
    /\ IsUnit(vertices[Len(vertices)])
    /\ Len(scene) = 1

\* C6: the vertices are normalized after seeding and after every pass: when a
\* pass begins, every vertex (those the pass before made included) has norm 1.
C6_NormalizedBeforeEveryPass ==
    (pc = "faces" /\ fi = 0) => \A i \in DOMAIN vertices : IsUnit(vertices[i])

\* C7: after seeding and after every pass every face has three pairwise
\* distinct indices, each an index of the vertex list; so have the faces a pass
\* has emitted so far.
C7_FacesValid ==
    /\ pc \in {"loop", "faces", "idle"} =>
          \A i \in DOMAIN faces : ValidFace(faces[i], Len(vertices))
    /\ pc = "faces" =>
          \A i \in DOMAIN new_faces : ValidFace(new_faces[i], Len(vertices))

C7_Witness ==
    /\ pc = "loop"
    /\ pass = 2
    /\ Len(faces) = 320
    /\ \E i \in DOMAIN faces : At(faces[i], 0) >= 42

\* The index the cache holds for the unordered pair {u, v}
Cached(u, v) == vertex_map[<<Min(u, v), Max(u, v)>>]

\* C8: within a pass the cache makes at most one vertex for each unordered pair
\* of indices: it is empty when the pass begins, its keys are sorted pairs, the
\* indices it holds are the contiguous indices of the vertices the pass has
\* appended (each the midpoint of its pair), and a request for an edge of the
\* next face followed by the request for the reversed edge returns the same
\* index twice; a hit appends nothing, a miss returns the length the list had.
C8_MidpointCache ==
    pc = "faces" =>
        LET start == Len(vertices) - Cardinality(DOMAIN vertex_map)
        IN  /\ fi = 0 => DOMAIN vertex_map = {}
            /\ index = Len(vertices)
            /\ start = VertexCount(pass)
            /\ \A key \in DOMAIN vertex_map :
                  /\ key[1] < key[2]
                  /\ At(vertices, vertex_map[key])
                        = Midpoint(At(vertices, key[1]), At(vertices, key[2]))
            /\ {vertex_map[key] : key \in DOMAIN vertex_map} = start .. (Len(vertices) - 1)
            /\ fi < Len(faces) =>
                  \A e \in FaceLines(At(faces, fi)) :
                      LET hit == \E key \in DOMAIN vertex_map : {key[1], key[2]} = {e[1], e[2]}
                          r1  == get_vertex(Locals, e[1], e[2])
                          r2  == get_vertex(r1, e[2], e[1])
                      IN  /\ r2.ret = r1.ret
                          /\ r2.vertices = r1.vertices
                          /\ r2.vertex_map = r1.vertex_map
                          /\ hit => (r1.vertices = vertices /\ r1.ret < Len(vertices))
                          /\ ~hit => /\ r1.ret = Len(vertices)
                                     /\ Len(r1.vertices) = Len(vertices) + 1
                                     /\ r1.index = r1.ret + 1

C8_Witness ==
    /\ pc = "faces"
    /\ pass = 1
    /\ fi = 5
    /\ \E e \in FaceLines(At(faces, fi)) : <<Min(e[1], e[2]), Max(e[1], e[2])>> \in DOMAIN vertex_map
    /\ \E e \in FaceLines(At(faces, fi)) : <<Min(e[1], e[2]), Max(e[1], e[2])>> \notin DOMAIN vertex_map

\* C9: a pass replaces the face (v1, v2, v3) by (v1, a, c), (v2, b, a),
\* (v3, c, b), (a, b, c), in that order and in the order of the faces, a, b, c
\* being the midpoints of (v1, v2), (v2, v3), (v3, v1), requested in that order.
C9_ChildFaces ==
    /\ pc = "faces" =>
          /\ Len(new_faces) = 4 * fi
          /\ \A i \in 0 .. (fi - 1) :
                LET f == At(faces, i)
                    a == Cached(f[1], f[2])
                    b == Cached(f[2], f[3])
                    c == Cached(f[3], f[1])
                IN  /\ At(new_faces, 4 * i)     = <<f[1], a, c>>
                    /\ At(new_faces, 4 * i + 1) = <<f[2], b, a>>
                    /\ At(new_faces, 4 * i + 2) = <<f[3], c, b>>
                    /\ At(new_faces, 4 * i + 3) = <<a, b, c>>
                    /\ At(vertices, a) = Midpoint(At(vertices, f[1]), At(vertices, f[2]))
                    /\ At(vertices, b) = Midpoint(At(vertices, f[2]), At(vertices, f[3]))
                    /\ At(vertices, c) = Midpoint(At(vertices, f[3]), At(vertices, f[1]))
          /\ fi >= 1 =>
                At(new_faces, 3) = <<VertexCount(pass), VertexCount(pass) + 1, VertexCount(pass) + 2>>
    /\ (pc = "loop" /\ pass >= 1) => faces = new_faces

C9_Witness ==
    /\ pc = "faces"
    /\ pass = 1
    /\ fi = Len(faces)
    /\ Len(new_faces) = 320

\* C10: once the window is made, and after every slider change and Reset click,
\* the scene holds one geometry, named "Icosasphere", built at the level the
\* slider shows, a level of 0..6; Reset sets the slider to 0 and builds level 0.
C10_SceneFollowsSlider ==
    /\ pc = "idle" =>
          /\ Len(scene) = 1
          /\ scene[1].name = "Icosasphere"
          /\ slider \in SliderMin .. SliderMax
          /\ subdivisions = slider
          /\ scene[1].geometry = LineSet(vertices, lines)
          /\ Len(scene[1].geometry.points) = VertexCount(slider)
    /\ handler = "_on_reset_icosasphere" => (slider = 0 /\ subdivisions = 0)
    /\ Len(scene) <= 1

C10_Witness ==
    /\ pc = "idle"
    /\ handler = "_on_reset_icosasphere"
    /\ slider = 0
    /\ Len(scene) = 1
    /\ Len(scene[1].geometry.points) = 12

\* The positions in faces of the faces that traverse the directed edge e
FacesWith(e) == {i \in DOMAIN faces : e \in FaceLines(faces[i])}

\* C11: after seeding, after every pass and at the return the faces are a
\* consistently wound closed surface: every directed edge (u, v) of the pairs
\* (v1, v2), (v2, v3), (v3, v1) lies in exactly one face, its reverse (v, u) in
\* exactly one other face, and the number of distinct directed pairs, which is
\* the number of lines of the line set, is 3 times the number of faces.
C11_ConsistentWinding ==
    /\ pc \in {"loop", "idle"} =>
          /\ \A e \in LinesOf(faces) :
                /\ Cardinality(FacesWith(e)) = 1
                /\ Cardinality(FacesWith(<<e[2], e[1]>>)) = 1
                /\ FacesWith(e) # FacesWith(<<e[2], e[1]>>)
          /\ Cardinality(LinesOf(faces)) = 3 * Len(faces)
    /\ pc = "idle" =>
          /\ lines = LinesOf(faces)
          /\ Cardinality(lines) = 3 * Len(faces)

C11_Witness ==
    /\ pc = "idle"
    /\ subdivisions = 2
    /\ Cardinality(lines) = 960
    /\ \E e \in lines : e[1] >= 42 /\ <<e[2], e[1]>> \in lines

====
